---- MODULE Spec2Model ----
(***************************************************************************)
(* Job lifecycle of the MENBAR core (server/app_core.py): the in-memory    *)
(* task registry tasks_storage, the four submission handlers, the status   *)
(* handler and the four background task functions.                         *)
(*                                                                         *)
(* Handlers are "async def" without an await, so one handler at a time     *)
(* runs on the event loop (variable req); the task functions are plain     *)
(* "def" and run in worker threads, one per accepted submission, after the *)
(* response of their handler was sent (variable tasks).  A dictionary      *)
(* store or lookup is one step.                                            *)
(***************************************************************************)
EXTENDS Integers, Sequences, FiniteSets, TLC

\* ------------------------------------------------------------------ bounds
\* accepted submissions per behaviour
MaxJobs == 2
\* longest camera list a montage submission carries
MaxCams == 1
\* a duration the probe reports for a readable audio file
MaxDuration == 7

\* longest audio duration, in seconds, and longest camera list for which
\* the loop of generate_premiere_xml is followed iteration by iteration
MaxXmlDuration == 9
MaxXmlCams == 2

\* ------------------------------------------------------- program constants
\* cut_duration = 3 if style == "internal" else 6
CutInternal == 3
CutOther == 6
\* random.uniform(cut_duration - 1, cut_duration + 2)
JitterBelow == 1
JitterAbove == 2
\* get_audio_duration's fallback when probing fails
DefaultDuration == 300

\* ------------------------------------------------------------------- state
VARIABLES
    tasks_storage,  \* the registry: job id -> record (a dict, domain grows)
    uuid_count,     \* job id -> number of uuid4() values drawn for that job
    req,            \* the handler running on the event loop, or idle
    tasks,          \* job id -> background execution (thread) state
    response,       \* what the /status request in progress returns, and for which id
    written,        \* history: <<id, record>> of every update_task_status call
    returned,       \* history: job ids returned to a client
    xml             \* generate_premiere_xml's frame, when its loop is followed

vars == <<tasks_storage, uuid_count, req, tasks, response, written, returned, xml>>

\* ---------------------------------------------------------------- helpers
\* d[k] = v on a dict
Put(d, k, v) == [x \in (DOMAIN d) \cup {k} |-> IF x = k THEN v ELSE d[x]]

EmptyDict == [x \in {} |-> 0]

\* Python's None as a result value
None == [type |-> "None"]

\* uuid.uuid4().hex is 128 random bits: a draw is a value that no other
\* draw produces.  The job ids are numbered in the order they are drawn,
\* and a value drawn while serving job j is named by j and the number of
\* that draw among those of j.
new_job_id == Cardinality(DOMAIN uuid_count) + 1

uuid4(j) == <<j, uuid_count[j] + 1>>

Drawn(j) == [uuid_count EXCEPT ![j] = @ + 1]

\* the dict literal built by update_task_status
Record(status, result, progress, marker) ==
    [status |-> status, result |-> result, progress |-> progress,
     updated_at |-> marker]

\* slip: the registry is rebound to a dict holding only this record
update_task_status_rebind(ts, task_id, status, result, progress, marker) ==
    [x \in {task_id} |-> Record(status, result, progress, marker)]

\* slip: an existing record is patched field by field, status and progress
\* only
update_task_status_patch(ts, task_id, status, result, progress, marker) ==
    IF task_id \in DOMAIN ts
    THEN [ts EXCEPT ![task_id] = [@ EXCEPT !.status = status,
                                          !.progress = progress]]
    ELSE Put(ts, task_id, Record(status, result, progress, marker))

\* slip: updated_at is renewed only when the status changes
update_task_status_keep(ts, task_id, status, result, progress, marker) ==
    Put(ts, task_id,
        Record(status, result, progress,
               IF task_id \in DOMAIN ts /\ ts[task_id].status = status
               THEN ts[task_id].updated_at ELSE marker))

update_task_status(ts, task_id, status, result, progress, marker) ==
    Put(ts, task_id, Record(status, result, progress, marker))

NotFound == [status |-> "NOT_FOUND", progress |-> 0]

get_task_status(ts, task_id) ==
    IF task_id \in DOMAIN ts THEN ts[task_id] ELSE NotFound

\* one call of update_task_status from a handler or a task function: the
\* store, the uuid drawn for updated_at, and the history of the call
Write(task_id, status, result, progress) ==
    /\ tasks_storage' = update_task_status(tasks_storage, task_id, status,
                                           result, progress, uuid4(task_id))
    /\ uuid_count' = Drawn(task_id)
    /\ written' = written \cup
          {<<task_id, Record(status, result, progress, uuid4(task_id))>>}

\* ------------------------------------------------------------ request data
Styles == {"internal", "cinematic"}

\* no call of generate_premiere_xml is being followed
XmlIdle == [pc |-> "idle", style |-> "internal", cam_count |-> 0,
            current_time |-> 0, clips |-> <<>>]

Lyrics == {"", "ya"}

\* the video_paths form field: text that is not JSON, JSON that is not a
\* list (a number, null), or a JSON list of n paths
VideoPathsInputs ==
    {[form |-> "invalid", len |-> 0], [form |-> "scalar", len |-> 0]}
    \cup {[form |-> "list", len |-> n] : n \in 0..MaxCams}

NoArgs == [lyrics |-> "", v_list |-> [form |-> "list", len |-> 0]]

Idle == [h |-> "none", pc |-> "idle", job_id |-> 0, args |-> NoArgs,
         scheduled |-> FALSE]

Accepting == req = Idle /\ Cardinality(DOMAIN uuid_count) < MaxJobs

\* ---------------------------------------------------------------- handlers
\* POST /mix: job_id = uuid.uuid4().hex
start_mix ==
    /\ Accepting
    /\ req' = [Idle EXCEPT !.h = "mix", !.pc = "create", !.job_id = new_job_id]
    /\ uuid_count' = Put(uuid_count, new_job_id, 0)
    /\ UNCHANGED <<tasks_storage, tasks, response, written, returned, xml>>

\* POST /srt/sync
start_srt_sync ==
    /\ Accepting
    /\ \E l \in Lyrics :
         req' = [Idle EXCEPT !.h = "srt", !.pc = "create", !.job_id = new_job_id,
                             !.args = [NoArgs EXCEPT !.lyrics = l]]
    /\ uuid_count' = Put(uuid_count, new_job_id, 0)
    /\ UNCHANGED <<tasks_storage, tasks, response, written, returned, xml>>

\* POST /image/generate
start_image_gen ==
    /\ Accepting
    /\ req' = [Idle EXCEPT !.h = "image", !.pc = "create", !.job_id = new_job_id]
    /\ uuid_count' = Put(uuid_count, new_job_id, 0)
    /\ UNCHANGED <<tasks_storage, tasks, response, written, returned, xml>>

\* slip: the id is drawn and the record created before video_paths is parsed
start_montage_parse_last ==
    /\ Accepting
    /\ \E v \in VideoPathsInputs :
         req' = [Idle EXCEPT !.h = "montage", !.job_id = new_job_id,
                             !.pc = IF v.form = "invalid" THEN "raised"
                                    ELSE "add_task",
                             !.args = [NoArgs EXCEPT !.v_list = v]]
    /\ tasks_storage' = update_task_status(tasks_storage, new_job_id,
                                           "pending", None, 0,
                                           <<new_job_id, 1>>)
    /\ written' = written \cup
          {<<new_job_id, Record("pending", None, 0, <<new_job_id, 1>>)>>}
    /\ uuid_count' = Put(uuid_count, new_job_id, 1)
    /\ UNCHANGED <<tasks, response, returned, xml>>

\* POST /montage/start: v_list = json.loads(video_paths) comes first and
\* raises on text that is not JSON; then job_id = uuid.uuid4().hex.  The
\* style only selects the cut length inside generate_premiere_xml.
start_montage ==
    /\ Accepting
    /\ \E v \in VideoPathsInputs :
         IF v.form = "invalid"
         THEN /\ req' = [Idle EXCEPT !.h = "montage", !.pc = "raised"]
              /\ UNCHANGED uuid_count
         ELSE /\ req' = [Idle EXCEPT !.h = "montage", !.pc = "create",
                                     !.job_id = new_job_id,
                                     !.args = [NoArgs EXCEPT !.v_list = v]]
              /\ uuid_count' = Put(uuid_count, new_job_id, 0)
    /\ UNCHANGED <<tasks_storage, tasks, response, written, returned, xml>>

\* slip: the handler schedules the task without creating the record
create_pending_omitted ==
    /\ req.pc = "create"
    /\ req' = [req EXCEPT !.pc = "add_task"]
    /\ UNCHANGED <<tasks_storage, uuid_count, tasks, response, written,
                   returned, xml>>

\* update_task_status(job_id, "pending"): result None, progress 0
create_pending ==
    /\ req.pc = "create"
    /\ Write(req.job_id, "pending", None, 0)
    /\ req' = [req EXCEPT !.pc = "add_task"]
    /\ UNCHANGED <<tasks, response, returned, xml>>

\* background_tasks.add_task(run_..., job_id, ...)
add_task ==
    /\ req.pc = "add_task"
    /\ req' = [req EXCEPT !.pc = "return", !.scheduled = TRUE]
    /\ UNCHANGED <<tasks_storage, uuid_count, tasks, response, written,
                   returned, xml>>

FirstLine(kind) ==
    CASE kind = "mix" -> "L153"
      [] kind = "srt" -> "L162"
      [] kind = "montage" -> "L174"
      [] kind = "image" -> "L199"

NewTask(kind, args) ==
    [kind |-> kind, pc |-> FirstLine(kind), lyrics |-> args.lyrics,
     v_list |-> args.v_list, duration |-> 0,
     srt_content |-> <<>>, ext_failed |-> FALSE, raised |-> FALSE,
     exc |-> "", reported |-> 0, out_file |-> <<>>]

\* return {"job_id": job_id}: the response is sent, then the background
\* tasks of the request are run
handler_return ==
    /\ req.pc = "return"
    /\ returned' = returned \cup {req.job_id}
    /\ tasks' = IF req.scheduled
                THEN Put(tasks, req.job_id, NewTask(req.h, req.args))
                ELSE tasks
    /\ req' = Idle
    /\ UNCHANGED <<tasks_storage, uuid_count, response, written, xml>>

\* the exception of json.loads leaves the handler: an error response, and
\* nothing was added to background_tasks
handler_error ==
    /\ req.pc = "raised"
    /\ req' = Idle
    /\ UNCHANGED <<tasks_storage, uuid_count, tasks, response, written,
                   returned, xml>>

NoResponse == [job_id |-> 0, body |-> [status |-> "-", progress |-> 0]]

\* slip: the lookup is a setdefault and stores the sentinel
get_status_setdefault ==
    /\ req = Idle
    /\ \E id \in 0..new_job_id :
         /\ response' = [job_id |-> id,
                         body |-> get_task_status(tasks_storage, id)]
         /\ tasks_storage' = IF id \in DOMAIN tasks_storage THEN tasks_storage
                             ELSE Put(tasks_storage, id, NotFound)
    /\ req' = [Idle EXCEPT !.h = "status", !.pc = "respond"]
    /\ UNCHANGED <<uuid_count, tasks, written, returned, xml>>

\* GET /status/{job_id}: return get_task_status(job_id), for a job id
\* issued so far, the one that would be issued next, or 0 for a string
\* that no uuid4() call produces
get_status ==
    /\ req = Idle
    /\ \E id \in 0..new_job_id :
         response' = [job_id |-> id, body |-> get_task_status(tasks_storage, id)]
    /\ req' = [Idle EXCEPT !.h = "status", !.pc = "respond"]
    /\ UNCHANGED <<tasks_storage, uuid_count, tasks, written, returned, xml>>

\* the body is serialised and sent; the handler leaves the event loop
status_sent ==
    /\ req.pc = "respond"
    /\ req' = Idle
    /\ response' = NoResponse
    /\ UNCHANGED <<tasks_storage, uuid_count, tasks, written, returned, xml>>

\* str() of the exceptions the collaborators raise
FfmpegMissing == "500: FFmpeg is not installed on the server."
CalledProcessError == "Command returned non-zero exit status 1."
ConnectionError == "HTTPSConnectionPool: Max retries exceeded"
OSError == "[Errno 28] No space left on device"
TypeError == "object is not iterable"
ValueError == "empty range for randrange()"

\* ------------------------------------------------------- task functions
\* the thread of job j moves to pc p with the local changes in f
Goto(j, p, f) ==
    tasks' = [tasks EXCEPT ![j] = [f EXCEPT !.pc = p]]

\* update_task_status(task_id, "processing", progress=p, result=r)
Report(j, p, r, nextpc) ==
    /\ Write(j, "processing", r, p)
    /\ Goto(j, nextpc, [tasks[j] EXCEPT !.reported = p])
    /\ UNCHANGED <<req, response, returned, xml>>

\* a statement inside the try block raises an exception whose str() is
\* msg, the locals being f
RaiseFrom(j, f, msg, ext) ==
    /\ Goto(j, "except", [f EXCEPT !.exc = msg, !.raised = TRUE,
                                   !.ext_failed = @ \/ ext])
    /\ UNCHANGED <<tasks_storage, uuid_count, req, response, written,
                   returned, xml>>

Raise(j, msg, ext) == RaiseFrom(j, tasks[j], msg, ext)

\* a statement that touches no shared state ends normally
Pass(j, nextpc, f) ==
    /\ Goto(j, nextpc, f)
    /\ UNCHANGED <<tasks_storage, uuid_count, req, response, written,
                   returned, xml>>

\* slip: the failure is recorded without its result
HandleException_no_result(j) ==
    /\ tasks[j].pc = "except"
    /\ Write(j, "failed", None, 0)
    /\ Goto(j, "done", tasks[j])
    /\ UNCHANGED <<req, response, returned, xml>>

\* slip: the failure is recorded again and again
HandleException_repeat(j) ==
    /\ tasks[j].pc \in {"except", "done"}
    /\ tasks[j].raised
    /\ Write(j, "failed", [error |-> tasks[j].exc], 0)
    /\ Goto(j, "done", tasks[j])
    /\ UNCHANGED <<req, response, returned, xml>>

\* slip: the task function is run again after a failure
HandleException_retry(j) ==
    /\ tasks[j].pc = "except"
    /\ Goto(j, FirstLine(tasks[j].kind), tasks[j])
    /\ UNCHANGED <<tasks_storage, uuid_count, req, response, written,
                   returned, xml>>

\* slip: the record of a failed job is dropped from the registry
HandleException_pop(j) ==
    /\ tasks[j].pc = "except"
    /\ tasks_storage' = [x \in DOMAIN tasks_storage \ {j} |-> tasks_storage[x]]
    /\ Goto(j, "done", tasks[j])
    /\ UNCHANGED <<uuid_count, req, response, written, returned, xml>>

\* slip: except Exception: pass
HandleException_pass(j) ==
    /\ tasks[j].pc = "except"
    /\ Goto(j, "done", tasks[j])
    /\ UNCHANGED <<tasks_storage, uuid_count, req, response, written,
                   returned, xml>>

\* except Exception as e:
\*     update_task_status(task_id, "failed", result={"error": str(e)})
\* progress is left at the parameter's default, 0
HandleException(j) ==
    /\ tasks[j].pc = "except"
    /\ Write(j, "failed", [error |-> tasks[j].exc], 0)
    /\ Goto(j, "done", tasks[j])
    /\ UNCHANGED <<req, response, returned, xml>>

\* slip: a statement after the completed update raises inside the try block
Complete_then_raise(j, r) ==
    /\ Write(j, "completed", r, 100)
    /\ Goto(j, "except", [tasks[j] EXCEPT !.exc = OSError, !.raised = TRUE])
    /\ UNCHANGED <<req, response, returned, xml>>

\* update_task_status(task_id, "completed", result=r, progress=100)
Complete(j, r) ==
    /\ Write(j, "completed", r, 100)
    /\ Goto(j, "done", tasks[j])
    /\ UNCHANGED <<req, response, returned, xml>>

At(j, kind, pc) == tasks[j].kind = kind /\ tasks[j].pc = pc

\* slip: the output file is named after the kind of job only
OutputName_fixed(kind, task_id) ==
    CASE kind = "mix" -> <<"mix_", 0, ".mp3">>
      [] kind = "srt" -> <<"sync_", 0, ".srt">>
      [] kind = "montage" -> <<"montage_", 0, ".xml">>

\* f"mix_{task_id}.mp3", f"sync_{task_id}.srt", f"montage_{task_id}.xml"
OutputName(kind, task_id) ==
    CASE kind = "mix" -> <<"mix_", task_id, ".mp3">>
      [] kind = "srt" -> <<"sync_", task_id, ".srt">>
      [] kind = "montage" -> <<"montage_", task_id, ".xml">>

\* OUTPUTS_DIR / name, and the URL the result carries for it
OutputPath(kind, task_id) == <<"OUTPUTS_DIR/">> \o OutputName(kind, task_id)

OutputUrl(kind, task_id) == <<"/outputs/">> \o OutputName(kind, task_id)

\* the local variable holding the output path is assigned
WithOutFile(j) == [tasks[j] EXCEPT !.out_file = OutputPath(tasks[j].kind, j)]

\* ---- run_mix_task
\* slip: the first update leaves progress at its default
mix_L153_no_progress(j) ==
    /\ At(j, "mix", "L153")
    /\ Report(j, 0, [message |-> "mix: start"], "L155")

mix_L153(j) ==
    /\ At(j, "mix", "L153")
    /\ Report(j, 10, [message |-> "mix: start"], "L155")

\* mix_audio_aza: ensure_ffmpeg raises, or ffmpeg exits non-zero
\* (check=True), or the mix is written
mix_L155(j) ==
    /\ At(j, "mix", "L155")
    /\ \/ RaiseFrom(j, WithOutFile(j), FfmpegMissing, TRUE)
       \/ RaiseFrom(j, WithOutFile(j), CalledProcessError, TRUE)
       \/ Pass(j, "L156", WithOutFile(j))

mix_L156(j) ==
    /\ At(j, "mix", "L156")
    /\ Complete(j, [output_url |-> OutputUrl("mix", j),
                    file_path |-> tasks[j].out_file])

mix_L158(j) ==
    /\ tasks[j].kind = "mix"
    /\ HandleException(j)

\* ---- generate_srt_via_ai
SrtHeader == "1\n00:00:01,000 --> 00:00:10,000\n"

\* user_lines[0] if user_lines else "..."
first_user_line(lyrics) == IF lyrics = "" THEN "..." ELSE lyrics

\* every exception inside is caught and returned as text; a reply without
\* "text" gives a fixed caption; otherwise the first lyric line
generate_srt_via_ai(lyrics, outcome) ==
    CASE outcome = "ffmpeg_missing" -> <<"ALIGMENT_ERROR: ", FfmpegMissing>>
      [] outcome = "ffmpeg_failed" -> <<"ALIGMENT_ERROR: ", CalledProcessError>>
      [] outcome = "unreachable" -> <<"ALIGMENT_ERROR: ", ConnectionError>>
      [] outcome = "no_text" -> <<SrtHeader, "[cloud connection error]", "\n">>
      [] outcome = "text" -> <<SrtHeader, first_user_line(lyrics), "\n">>

SrtOutcomes == {"ffmpeg_missing", "ffmpeg_failed", "unreachable", "no_text",
                "text"}

\* ---- run_srt_sync_task
srt_L162(j) ==
    /\ At(j, "srt", "L162")
    /\ Report(j, 10, [message |-> "srt: analysing"], "L163")

\* srt_content = generate_srt_via_ai(audio_path, lyrics); the call draws a
\* uuid4 for the name of its temporary file
srt_L163(j) ==
    /\ At(j, "srt", "L163")
    /\ \E o \in SrtOutcomes :
         Goto(j, "L166",
              [tasks[j] EXCEPT
                 !.srt_content = generate_srt_via_ai(tasks[j].lyrics, o),
                 !.ext_failed = (o # "text")])
    /\ uuid_count' = Drawn(j)
    /\ UNCHANGED <<tasks_storage, req, response, written, returned, xml>>

\* with open(srt_path, "w") as f: f.write(srt_content)
srt_L166(j) ==
    /\ At(j, "srt", "L166")
    /\ \/ RaiseFrom(j, WithOutFile(j), OSError, FALSE)
       \/ Pass(j, "L168", WithOutFile(j))

srt_L168(j) ==
    /\ At(j, "srt", "L168")
    /\ Complete(j, [output_url |-> OutputUrl("srt", j),
                    file_path |-> tasks[j].out_file,
                    srt_content |-> tasks[j].srt_content])

srt_L170(j) ==
    /\ tasks[j].kind = "srt"
    /\ HandleException(j)

\* ---- get_audio_duration: the probed value, or 300.0 on any exception
ProbeDurations == {0, MaxDuration}

\* probe.ok: ffprobe exited with 0 and printed the number probe.value
ProbeOutcomes ==
    {[ok |-> TRUE, value |-> d] : d \in ProbeDurations}
    \cup {[ok |-> FALSE, value |-> 0]}

get_audio_duration(probe) ==
    IF probe.ok THEN probe.value ELSE DefaultDuration

\* ---- generate_premiere_xml, as seen by its caller: enumerate(video_paths)
\* raises on a value that is not iterable, random.randint(0, cam_count - 1)
\* raises when the loop is entered with no camera, otherwise it returns
generate_premiere_xml_raises(v_list, total_duration) ==
    IF v_list.form # "list" THEN TypeError
    ELSE IF total_duration > 0 /\ v_list.len = 0 THEN ValueError
    ELSE ""

\* ---- run_montage_task
montage_L174(j) ==
    /\ At(j, "montage", "L174")
    /\ Report(j, 10, [message |-> "montage: audio analysis"], "L175")

montage_L175(j) ==
    /\ At(j, "montage", "L175")
    /\ \E probe \in ProbeOutcomes :
         Pass(j, "L176",
              [tasks[j] EXCEPT !.duration = get_audio_duration(probe),
                               !.ext_failed = ~probe.ok])

montage_L176(j) ==
    /\ At(j, "montage", "L176")
    /\ Report(j, 35, [message |-> "montage: duration known"], "L181")

\* slip: the third report is lower than the second
montage_L181_lower(j) ==
    /\ At(j, "montage", "L181")
    /\ Report(j, 30, [message |-> "montage: building project"], "L183")

\* time.sleep(1.5), then the third progress report
montage_L181(j) ==
    /\ At(j, "montage", "L181")
    /\ Report(j, 70, [message |-> "montage: building project"], "L183")

montage_L183(j) ==
    /\ At(j, "montage", "L183")
    /\ LET e == generate_premiere_xml_raises(tasks[j].v_list,
                                             tasks[j].duration)
       IN  IF e # "" THEN Raise(j, e, FALSE)
           ELSE Pass(j, "L186", tasks[j])

\* with open(xml_path, "w") as f: f.write(xml_content)
montage_L186(j) ==
    /\ At(j, "montage", "L186")
    /\ \/ RaiseFrom(j, WithOutFile(j), OSError, FALSE)
       \/ Pass(j, "L189", WithOutFile(j))

montage_L189(j) ==
    /\ At(j, "montage", "L189")
    /\ Complete(j, [output_url |-> OutputUrl("montage", j),
                    file_path |-> tasks[j].out_file,
                    message |-> "montage: done"])

montage_L195(j) ==
    /\ tasks[j].kind = "montage"
    /\ HandleException(j)

\* ---- run_image_gen_task: no result is passed with the progress report,
\* and building the URL calls nothing that fails
image_L199(j) ==
    /\ At(j, "image", "L199")
    /\ Report(j, 50, None, "L202")

image_L202(j) ==
    /\ At(j, "image", "L202")
    /\ Complete(j, [data |-> <<[url |-> "https://image.pollinations.ai/prompt/..."]>>])

\* one step of the thread of job j
TaskStep(j) ==
    \/ mix_L153(j)
    \/ mix_L155(j)
    \/ mix_L156(j)
    \/ mix_L158(j)
    \/ srt_L162(j)
    \/ srt_L163(j)
    \/ srt_L166(j)
    \/ srt_L168(j)
    \/ srt_L170(j)
    \/ montage_L174(j)
    \/ montage_L175(j)
    \/ montage_L176(j)
    \/ montage_L181(j)
    \/ montage_L183(j)
    \/ montage_L186(j)
    \/ montage_L189(j)
    \/ montage_L195(j)
    \/ image_L199(j)
    \/ image_L202(j)

Init ==
    /\ tasks_storage = EmptyDict
    /\ uuid_count = EmptyDict
    /\ req = Idle
    /\ tasks = EmptyDict
    /\ response = NoResponse
    /\ written = {}
    /\ returned = {}
    /\ xml = XmlIdle

Next ==
    \/ start_mix
    \/ start_srt_sync
    \/ start_montage
    \/ start_image_gen
    \/ create_pending
    \/ add_task
    \/ handler_return
    \/ handler_error
    \/ get_status
    \/ status_sent
    \/ \E j \in DOMAIN tasks : TaskStep(j)

Spec == Init /\ [][Next]_vars

\* ------------------------------------ generate_premiere_xml, step by step
\* The call at line 183 of a montage job, followed through its loop.  Times
\* are whole seconds: random.uniform draws a real in the band, of which the
\* integers of the band are taken.
cut_duration(style) == IF style = "internal" THEN CutInternal ELSE CutOther

JitterBand(style) ==
    (cut_duration(style) - JitterBelow)..(cut_duration(style) + JitterAbove)

XmlVideoPaths ==
    {[form |-> "scalar", len |-> 0]}
    \cup {[form |-> "list", len |-> n] : n \in 0..MaxXmlCams}

XmlDurations == (0 - 1)..MaxXmlDuration

\* lines 108-127: enumerate(video_paths) raises on a value that is not
\* iterable; current_time = 0, cam_count = len(video_paths)
xml_L108(j) ==
    /\ At(j, "montage", "L183")
    /\ xml.pc = "idle"
    /\ IF tasks[j].v_list.form # "list"
       THEN /\ xml' = [xml EXCEPT !.pc = "raised"]
            /\ Goto(j, "except", [tasks[j] EXCEPT !.exc = TypeError,
                                                  !.raised = TRUE])
       ELSE /\ xml' = [xml EXCEPT !.pc = "loop",
                                  !.cam_count = tasks[j].v_list.len,
                                  !.current_time = 0, !.clips = <<>>]
            /\ UNCHANGED tasks
    /\ UNCHANGED <<tasks_storage, uuid_count, req, response, written,
                   returned>>

\* slip: the last cut is not shortened to the remaining time
xml_L129_no_cut(j) ==
    /\ At(j, "montage", "L183")
    /\ xml.pc = "loop"
    /\ xml.current_time < tasks[j].duration
    /\ xml.cam_count > 0
    /\ \E cam_idx \in 0..(xml.cam_count - 1), u \in JitterBand(xml.style) :
         xml' = [xml EXCEPT
                   !.clips = Append(@, [cam_idx |-> cam_idx,
                                        offset |-> xml.current_time,
                                        duration |-> u]),
                   !.current_time = @ + u]
    /\ UNCHANGED <<tasks_storage, uuid_count, req, tasks, response, written,
                   returned>>

\* slip: the band starts at cut_duration - 3, so a cut of length 0 is drawn
xml_L129_zero_cut(j) ==
    /\ At(j, "montage", "L183")
    /\ xml.pc = "loop"
    /\ xml.current_time < tasks[j].duration
    /\ xml.cam_count > 0
    /\ \E cam_idx \in 0..(xml.cam_count - 1),
          u \in (cut_duration(xml.style) - 3)..(cut_duration(xml.style) + 2) :
         LET duration == IF xml.current_time + u > tasks[j].duration
                         THEN tasks[j].duration - xml.current_time ELSE u
         IN  xml' = [xml EXCEPT
                       !.clips = Append(@, [cam_idx |-> cam_idx,
                                            offset |-> xml.current_time,
                                            duration |-> duration]),
                       !.current_time = @ + duration]
    /\ UNCHANGED <<tasks_storage, uuid_count, req, tasks, response, written,
                   returned>>

\* one iteration of "while current_time < total_duration" (lines 129-136);
\* random.randint(0, cam_count - 1) raises ValueError when cam_count is 0
xml_L129(j) ==
    /\ At(j, "montage", "L183")
    /\ xml.pc = "loop"
    /\ xml.current_time < tasks[j].duration
    /\ IF xml.cam_count = 0
       THEN /\ xml' = [xml EXCEPT !.pc = "raised"]
            /\ Goto(j, "except", [tasks[j] EXCEPT !.exc = ValueError,
                                                  !.raised = TRUE])
       ELSE /\ \E cam_idx \in 0..(xml.cam_count - 1),
                  u \in JitterBand(xml.style) :
                 LET duration ==
                       IF xml.current_time + u > tasks[j].duration
                       THEN tasks[j].duration - xml.current_time ELSE u
                 IN  xml' = [xml EXCEPT
                               !.clips = Append(@, [cam_idx |-> cam_idx,
                                                    offset |-> xml.current_time,
                                                    duration |-> duration]),
                               !.current_time = @ + duration]
            /\ UNCHANGED tasks
    /\ UNCHANGED <<tasks_storage, uuid_count, req, response, written,
                   returned>>

\* the loop condition fails: return xml_header + clips_xml + xml_footer
xml_L145(j) ==
    /\ At(j, "montage", "L183")
    /\ xml.pc = "loop"
    /\ ~(xml.current_time < tasks[j].duration)
    /\ xml' = [xml EXCEPT !.pc = "returned"]
    /\ Goto(j, "L186", tasks[j])
    /\ UNCHANGED <<tasks_storage, uuid_count, req, response, written,
                   returned>>

\* a montage job that made its three progress reports and is about to call
\* generate_premiere_xml, for each camera list, duration and style
InitXml ==
    /\ \E v \in XmlVideoPaths, d \in XmlDurations :
         tasks = Put(EmptyDict, 1,
                     [NewTask("montage", [NoArgs EXCEPT !.v_list = v])
                        EXCEPT !.pc = "L183", !.duration = d,
                               !.reported = 70])
    /\ \E s \in Styles : xml = [XmlIdle EXCEPT !.style = s]
    /\ tasks_storage =
         Put(EmptyDict, 1,
             Record("processing", [message |-> "montage: building project"],
                    70, <<1, 4>>))
    /\ written =
         {<<1, Record("pending", None, 0, <<1, 1>>)>>,
          <<1, Record("processing", [message |-> "montage: audio analysis"],
                      10, <<1, 2>>)>>,
          <<1, Record("processing", [message |-> "montage: duration known"],
                      35, <<1, 3>>)>>,
          <<1, Record("processing", [message |-> "montage: building project"],
                      70, <<1, 4>>)>>}
    /\ uuid_count = Put(EmptyDict, 1, 4)
    /\ req = Idle
    /\ response = NoResponse
    /\ returned = {1}

NextXml ==
    \/ \E j \in DOMAIN tasks : xml_L108(j)
    \/ \E j \in DOMAIN tasks : xml_L129(j)
    \/ \E j \in DOMAIN tasks : xml_L145(j)
    \/ \E j \in DOMAIN tasks : montage_L186(j)
    \/ \E j \in DOMAIN tasks : montage_L189(j)
    \/ \E j \in DOMAIN tasks : montage_L195(j)

SpecXml == InitXml /\ [][NextXml]_vars

\* the thread of the job is scheduled until it ends
FairSpecXml == SpecXml /\ WF_vars(NextXml)

\* background executions and handlers are scheduled fairly: a thread that
\* can take its next statement eventually takes it, and the handler on the
\* event loop runs to its return
TaskRun(j) == j \in DOMAIN tasks /\ TaskStep(j)

HandlerStep == create_pending \/ add_task \/ handler_return

FairSpec ==
    /\ Spec
    /\ WF_vars(HandlerStep)
    /\ \A j \in 1..MaxJobs : WF_vars(TaskRun(j))

\* ------------------------------------------------------------- properties
Terminal(status) == status \in {"completed", "failed"}

Rank(status) ==
    CASE status = "pending" -> 0
      [] status = "processing" -> 1
      [] Terminal(status) -> 2

\* the records update_task_status was called to write for id j
WrittenFor(j) == {w[2] : w \in {x \in written : x[1] = j}}

\* a /status request is being answered
Answering == req.pc = "respond"

\* C1: the status of a job's record never moves backward in the order
\* pending < processing < {completed, failed}, and a completed record never
\* becomes failed nor a failed one completed.
C1_StatusNeverMovesBackward ==
    [][\A j \in DOMAIN tasks_storage :
          /\ j \in DOMAIN tasks_storage'
          /\ Rank(tasks_storage[j].status) <= Rank(tasks_storage'[j].status)
          /\ Terminal(tasks_storage[j].status) =>
                tasks_storage'[j].status = tasks_storage[j].status]_vars

\* a job went pending, processing, failed
C1_Witness ==
    \E j \in DOMAIN tasks_storage :
        /\ tasks_storage[j].status = "failed"
        /\ {"pending", "processing"} \subseteq
              {r.status : r \in WrittenFor(j)}

\* C2: once a record is completed or failed no step changes it, and every
\* /status request for that id is answered with that very record.
C2_TerminalRecordFrozen ==
    [][\A j \in DOMAIN tasks_storage :
          Terminal(tasks_storage[j].status) =>
              /\ j \in DOMAIN tasks_storage'
              /\ tasks_storage'[j] = tasks_storage[j]
              /\ (Answering' /\ ~Answering /\ response'.job_id = j) =>
                    response'.body = tasks_storage[j]]_vars

\* a terminal job is queried while another job is still running
C2_Witness ==
    /\ Answering
    /\ response.job_id \in DOMAIN tasks_storage
    /\ Terminal(response.body.status)
    /\ \E i \in DOMAIN tasks : tasks[i].pc # "done"

\* C3: an id that was returned to a client, or whose execution was handed
\* to the background tasks, has a record whose first write is (pending, 0,
\* None); a /status request for a returned id is never answered not-found.
C3_CreatedBeforeReturn ==
    /\ \A j \in returned \cup DOMAIN tasks
                \cup (IF req.scheduled THEN {req.job_id} ELSE {}) :
          /\ j \in DOMAIN tasks_storage
          /\ Record("pending", None, 0, <<j, 1>>) \in WrittenFor(j)
    /\ (Answering /\ response.job_id \in returned) =>
          response.body # NotFound

\* a returned id is queried before its execution wrote anything
C3_Witness ==
    /\ Answering
    /\ response.job_id \in returned
    /\ response.body.status = "pending"

\* C4: a /status request for an id that was never issued is answered with
\* the sentinel (NOT_FOUND, progress 0), and no /status request changes the
\* registry.
C4_UnknownIdNotFound ==
    [][(Answering' /\ ~Answering) =>
          /\ tasks_storage' = tasks_storage
          /\ response'.job_id \notin DOMAIN uuid_count =>
                response'.body = [status |-> "NOT_FOUND", progress |-> 0]]_vars

\* an unknown id is queried while the registry holds records
C4_Witness ==
    /\ Answering
    /\ response.job_id \notin DOMAIN uuid_count
    /\ response.body.status = "NOT_FOUND"
    /\ DOMAIN tasks_storage # {}

\* C5: a step of the execution of job j leaves the record of every other id
\* as it was, and a /status answer for id i is a record written for i and
\* for no other id.
C5_Isolation ==
    /\ [][\A j \in DOMAIN tasks :
            (j \in DOMAIN tasks' /\ tasks'[j] # tasks[j]) =>
               \A i \in DOMAIN tasks_storage \ {j} :
                  /\ i \in DOMAIN tasks_storage'
                  /\ tasks_storage'[i] = tasks_storage[i]]_vars
    /\ [](Answering /\ response.body # NotFound =>
            /\ response.body \in WrittenFor(response.job_id)
            /\ \A k \in DOMAIN uuid_count \ {response.job_id} :
                  response.body \notin WrittenFor(k))

\* two executions have both written and both are still running
C5_Witness ==
    \E i \in DOMAIN tasks, j \in DOMAIN tasks :
        /\ i # j
        /\ tasks_storage[i].status = "processing"
        /\ tasks_storage[j].status = "processing"
        /\ tasks_storage[i].progress # tasks_storage[j].progress

\* C6: an execution that raised after a progress report and has ended left
\* a failed record for its id, with progress at most the last reported
\* value and an error entry in the result; the exception ended in the
\* except clause of the task function.
C6_RaiseEndsFailed ==
    \A j \in DOMAIN tasks :
        tasks[j].raised =>
            /\ tasks[j].pc \in {"except", "done"}
            /\ tasks[j].reported > 0
            /\ j \in DOMAIN tasks_storage
            /\ tasks[j].pc = "done" =>
                  /\ tasks_storage[j].status = "failed"
                  /\ tasks_storage[j].progress <= tasks[j].reported
                  /\ "error" \in DOMAIN tasks_storage[j].result

\* a montage execution raised after reporting 70 and has ended
C6_Witness ==
    \E j \in DOMAIN tasks :
        /\ tasks[j].raised
        /\ tasks[j].pc = "done"
        /\ tasks[j].reported = 70

\* C7: an execution whose external call or subprocess failed ends failed
\* with a non-empty error message, and is never completed.
C7_ExternalFailureEndsFailed ==
    \A j \in DOMAIN tasks :
        (tasks[j].ext_failed /\ tasks[j].pc = "done") =>
            /\ tasks_storage[j].status = "failed"
            /\ "error" \in DOMAIN tasks_storage[j].result
            /\ tasks_storage[j].result.error # ""

\* C8: under fair scheduling every job with a record eventually has a
\* completed or failed record, and an execution ends in no other way.
C8_EveryJobEnds ==
    /\ \A j \in 1..MaxJobs :
          (j \in DOMAIN tasks_storage) ~>
              (j \in DOMAIN tasks_storage /\ Terminal(tasks_storage[j].status))
    /\ [](\A j \in DOMAIN tasks :
            tasks[j].pc = "done" => Terminal(tasks_storage[j].status))

\* every accepted job has ended, some completed and some failed
C8_Witness ==
    /\ Cardinality(DOMAIN tasks) = MaxJobs
    /\ \A j \in DOMAIN tasks : tasks[j].pc = "done"
    /\ {tasks_storage[j].status : j \in DOMAIN tasks} =
          {"completed", "failed"}

\* C9: every record in the registry, and every record a /status request is
\* answered with, is as a whole the record of one update_task_status call
\* for that id; an answer being sent is not changed by later writes.
C9_NoTornRecord ==
    /\ [](\A j \in DOMAIN tasks_storage : tasks_storage[j] \in WrittenFor(j))
    /\ [](Answering /\ response.body # NotFound =>
            response.body \in WrittenFor(response.job_id))
    /\ [][Answering /\ Answering' => response' = response]_vars

\* the record of the queried id was replaced while the answer was being sent
C9_Witness ==
    /\ Answering
    /\ response.job_id \in DOMAIN tasks_storage
    /\ response.body.status = "processing"
    /\ tasks_storage[response.job_id] # response.body

\* C10: a montage request whose video_paths is not JSON ends with an error:
\* its handler draws no id, writes nothing to the registry and hands
\* nothing to the background tasks.
C10_UnparseableRejected ==
    [][((req'.pc = "raised" \/ req.pc = "raised") /\ req' # req) =>
          /\ req'.job_id = 0
          /\ ~req'.scheduled
          /\ UNCHANGED <<tasks_storage, uuid_count, tasks, written,
                         returned, xml>>]_vars

\* the request is rejected while the registry holds a record
C10_Witness ==
    /\ req.h = "montage"
    /\ req.pc = "raised"
    /\ DOMAIN tasks_storage # {}

\* C11: a mix job whose mixing step succeeded has had exactly three records,
\* in this order: (pending, 0, None), (processing, 10, message) and
\* (completed, 100, result with the output of this job id); every step that
\* changes the record of a mix job is one of these two moves.
C11_MixRecordSequence ==
    /\ [](\A j \in DOMAIN tasks :
            (tasks[j].kind = "mix" /\ tasks[j].pc = "done" /\ ~tasks[j].raised)
            => WrittenFor(j) =
                 {Record("pending", None, 0, <<j, 1>>),
                  Record("processing", [message |-> "mix: start"], 10,
                         <<j, 2>>),
                  Record("completed",
                         [output_url |-> <<"/outputs/", "mix_", j, ".mp3">>,
                          file_path |-> <<"OUTPUTS_DIR/", "mix_", j, ".mp3">>],
                         100, <<j, 3>>)})
    /\ [][\A j \in DOMAIN tasks :
            (tasks[j].kind = "mix" /\ ~tasks[j].raised /\ ~tasks'[j].raised
             /\ tasks_storage'[j] # tasks_storage[j])
            => \/ /\ tasks_storage[j].status = "pending"
                  /\ tasks_storage'[j].status = "processing"
                  /\ tasks_storage'[j].progress = 10
               \/ /\ tasks_storage[j].status = "processing"
                  /\ tasks_storage'[j].status = "completed"
                  /\ tasks_storage'[j].progress = 100]_vars

\* a mix job completed
C11_Witness ==
    \E j \in DOMAIN tasks :
        /\ tasks[j].kind = "mix"
        /\ tasks[j].pc = "done"
        /\ tasks_storage[j].status = "completed"

\* C13: the failed record of an execution that raised carries the progress
\* of its last report.
C13_FailedKeepsProgress ==
    \A j \in DOMAIN tasks :
        (tasks[j].raised /\ tasks[j].pc = "done") =>
            /\ tasks_storage[j].status = "failed"
            /\ tasks_storage[j].progress = tasks[j].reported

\* C14: every record's progress is an integer in 0..100, a pending record
\* has progress 0 and a completed one 100, and from one processing record
\* of a job to the next the progress does not decrease.
C14_ProgressRange ==
    /\ [](\A j \in DOMAIN tasks_storage :
            /\ tasks_storage[j].progress \in 0..100
            /\ tasks_storage[j].status = "pending" =>
                  tasks_storage[j].progress = 0
            /\ tasks_storage[j].status = "completed" =>
                  tasks_storage[j].progress = 100)
    /\ [][\A j \in DOMAIN tasks_storage :
            (/\ tasks_storage[j].status = "processing"
             /\ tasks_storage'[j].status = "processing")
            => tasks_storage'[j].progress >= tasks_storage[j].progress]_vars

\* a montage job made its third progress report
C14_Witness ==
    \E j \in DOMAIN tasks_storage :
        /\ tasks_storage[j].status = "processing"
        /\ tasks_storage[j].progress = 70
        /\ {10, 35} \subseteq {r.progress : r \in WrittenFor(j)}

\* C15: the ids returned are exactly those with an execution; an execution
\* is never started again once it moved or ended; and a step that changes
\* an existing record is a step of the execution of that very id, not of a
\* handler.
C15_SingleWriter ==
    /\ [](returned = DOMAIN tasks)
    /\ [][\A j \in DOMAIN tasks :
            tasks'[j] # tasks[j] =>
               /\ tasks[j].pc # "done"
               /\ tasks'[j].pc # FirstLine(tasks[j].kind)
               /\ \A i \in DOMAIN tasks \ {j} : tasks'[i] = tasks[i]]_vars
    /\ [][\A j \in DOMAIN tasks_storage :
            (j \notin DOMAIN tasks_storage' \/ tasks_storage'[j] # tasks_storage[j])
            => /\ j \in DOMAIN tasks
               /\ tasks'[j] # tasks[j]
               /\ req' = req]_vars

\* one execution has written while another is still running
C15_Witness ==
    \E i \in DOMAIN tasks, j \in DOMAIN tasks :
        /\ i # j
        /\ tasks[i].pc \notin {"done", FirstLine(tasks[i].kind)}
        /\ tasks_storage[j].status = "failed"

\* C16: no step writes a pending record over an existing record, and
\* creating the record of an id that already has one leaves the registry as
\* it was.
C16_NoReuseInPlace ==
    /\ [][\A j \in DOMAIN tasks_storage :
            /\ j \in DOMAIN tasks_storage'
            /\ tasks_storage'[j].status = "pending" =>
                  tasks_storage'[j] = tasks_storage[j]]_vars
    /\ [](\A j \in DOMAIN tasks_storage :
            update_task_status(tasks_storage, j, "pending", None, 0, uuid4(j))
                = tasks_storage)

\* the ids still inside their submission handler: record written, id not
\* yet returned
InHandler == IF req.pc \in {"add_task", "return"} THEN {req.job_id} ELSE {}

\* C17 as stated: the registry only grows and its ids are always exactly
\* the ids returned.
C17_RegistryEqualsReturned ==
    /\ [][DOMAIN tasks_storage \subseteq DOMAIN tasks_storage']_vars
    /\ [](DOMAIN tasks_storage = returned)

\* C17, amended: the registry only grows; it holds every returned id, and
\* besides those only the id of the submission handler in progress, which
\* creates the record before it returns the id.
C17_RegistryNeverEvicts ==
    /\ [][DOMAIN tasks_storage \subseteq DOMAIN tasks_storage']_vars
    /\ [](/\ returned \subseteq DOMAIN tasks_storage
          /\ DOMAIN tasks_storage \subseteq returned \cup InHandler
          /\ req = Idle => DOMAIN tasks_storage = returned)

\* a finished job is still in the registry while a handler holds a record
\* whose id is not returned yet
C17_Witness ==
    /\ InHandler # {}
    /\ InHandler \subseteq DOMAIN tasks_storage \ returned
    /\ \E j \in DOMAIN tasks : tasks[j].pc = "done" /\ j \in DOMAIN tasks_storage

\* the markers installed so far
Markers ==
    {w[2].updated_at : w \in written}
    \cup {tasks_storage[i].updated_at : i \in DOMAIN tasks_storage}

\* C18: every call of update_task_status leaves in the record a marker that
\* no earlier write installed, also when the status is the one already
\* stored.
C18_FreshMarker ==
    [][\A j \in DOMAIN uuid_count :
          (/\ uuid_count'[j] = uuid_count[j] + 1
           /\ ~(j \in DOMAIN tasks /\ tasks[j].pc = "L163"))
          => /\ j \in DOMAIN tasks_storage'
             /\ tasks_storage'[j].updated_at \notin Markers]_vars

\* a processing record replaced a processing record
C18_Witness ==
    \E j \in DOMAIN tasks_storage :
        /\ tasks_storage[j].status = "processing"
        /\ \E r \in WrittenFor(j) :
              /\ r.status = "processing"
              /\ r.updated_at # tasks_storage[j].updated_at

\* C19: the output paths of two different jobs differ, and the path of a
\* job carries the id of that job.
C19_DistinctOutputPaths ==
    \A i \in DOMAIN tasks :
        tasks[i].out_file # <<>> =>
            /\ tasks[i].out_file[3] = i
            /\ \A j \in DOMAIN tasks \ {i} :
                  tasks[j].out_file # tasks[i].out_file

\* two jobs of the same kind are running and both have their output path
C19_Witness ==
    \E i \in DOMAIN tasks, j \in DOMAIN tasks :
        /\ i # j
        /\ tasks[i].kind = tasks[j].kind
        /\ tasks[i].out_file # <<>> /\ tasks[j].out_file # <<>>
        /\ tasks[i].pc # "done" /\ tasks[j].pc # "done"

\* ---- the timeline of a followed generate_premiere_xml call
RECURSIVE SumDurations(_)
SumDurations(clips) ==
    IF clips = <<>> THEN 0
    ELSE clips[Len(clips)].duration + SumDurations(SubSeq(clips, 1, Len(clips) - 1))

\* the total_duration argument of the followed call
XmlTotal == tasks[1].duration

\* the case of C12: a positive duration, a camera, style "internal"
XmlInternalCase ==
    /\ xml.pc \in {"loop", "returned"}
    /\ xml.style = "internal"
    /\ xml.cam_count >= 1
    /\ XmlTotal > 0

\* the first segment starts at 0, each next one where the previous ends,
\* every camera index is in range, and the finished timeline covers D
XmlContiguous ==
    /\ xml.clips # <<>> => xml.clips[1].offset = 0
    /\ \A k \in 1..(Len(xml.clips) - 1) :
          xml.clips[k + 1].offset = xml.clips[k].offset + xml.clips[k].duration
    /\ \A k \in 1..Len(xml.clips) :
          xml.clips[k].cam_idx \in 0..(xml.cam_count - 1)
    /\ xml.pc = "returned" => SumDurations(xml.clips) = XmlTotal

\* C12 as stated: the timeline is gapless from 0, covers exactly D, uses
\* camera indices in range, and every segment's duration is in the band
\* [cut - 1, cut + 2] = [2, 5].
C12_TimelineAllInBand ==
    XmlInternalCase =>
        /\ XmlContiguous
        /\ \A k \in 1..Len(xml.clips) : xml.clips[k].duration \in 2..5

\* C12, amended: as stated, but a segment is in the band only if it was not
\* cut to the remaining time; the cut one is the last, equals the time that
\* remained, is positive and at most cut + 2, and may be shorter than
\* cut - 1.
C12_TimelineLastCut ==
    XmlInternalCase =>
        /\ XmlContiguous
        /\ \A k \in 1..Len(xml.clips) :
              /\ xml.clips[k].duration > 0
              /\ xml.clips[k].duration <= 5
              /\ xml.clips[k].duration < 2 =>
                    /\ k = Len(xml.clips)
                    /\ xml.clips[k].duration = XmlTotal - xml.clips[k].offset
                    /\ xml.current_time = XmlTotal

\* a finished timeline of several segments whose last one is below the band
C12_Witness ==
    /\ XmlInternalCase
    /\ xml.pc = "returned"
    /\ xml.cam_count >= 2
    /\ Len(xml.clips) >= 3
    /\ xml.clips[Len(xml.clips)].duration < 2
    /\ \E k \in 1..Len(xml.clips) : xml.clips[k].cam_idx = 1

Min(a, b) == IF a < b THEN a ELSE b

\* C20: the followed call ends, by returning or raising, and the job ends;
\* an iteration advances current_time by a positive amount, at least
\* min(cut - 1, remaining time); an iteration starts only below the total
\* duration and the call returns at or above it; a total duration <= 0
\* gives no segment; no camera with a positive duration raises without any
\* segment and the job ends failed.
C20_LoopTerminates ==
    /\ <>(xml.pc \in {"returned", "raised"})
    /\ <>(\A j \in DOMAIN tasks : tasks[j].pc = "done")
    /\ [][Len(xml'.clips) # Len(xml.clips) =>
            /\ xml'.current_time > xml.current_time
            /\ xml'.current_time - xml.current_time >=
                  Min(cut_duration(xml.style) - 1,
                      XmlTotal - xml.current_time)
            /\ xml.current_time < XmlTotal]_vars
    /\ [](xml.pc = "returned" =>
            /\ xml.current_time >= XmlTotal
            /\ XmlTotal <= 0 => xml.clips = <<>>)
    /\ [](\A j \in DOMAIN tasks :
            (tasks[j].v_list = [form |-> "list", len |-> 0] /\ XmlTotal > 0)
            => /\ xml.clips = <<>>
               /\ xml.pc # "returned"
               /\ tasks[j].pc = "done" =>
                     /\ tasks_storage[j].status = "failed"
                     /\ tasks_storage[j].result = [error |-> ValueError])
    /\ [](xml.pc = "raised" <=>
            (\E j \in DOMAIN tasks :
                /\ tasks[j].exc \in {TypeError, ValueError}
                /\ tasks[j].exc =
                     generate_premiere_xml_raises(tasks[j].v_list, XmlTotal)))

\* a timeline for the longest duration and the long cut was finished and
\* the job completed
C20_Witness ==
    /\ xml.pc = "returned"
    /\ xml.style # "internal"
    /\ XmlTotal = MaxXmlDuration
    /\ Len(xml.clips) >= 2
    /\ tasks_storage[1].status = "completed"
====
